---- MODULE Spec2Model ----
(***************************************************************************)
(* fe3o4: a typed resource registry.                                       *)
(*   id.rs   Id<T>: two ArrayString<12> parts, Display, FromStr, Ord       *)
(*   tab.rs  RegTab<T>: a DashMap behind a LazyLock static (def_regtab!)   *)
(*   lib.rs  Rp<T>: Registered(dashmap Ref) | Orphan(Box<T>), with serde   *)
(* Strings are sequences of byte values.                                   *)
(***************************************************************************)
EXTENDS Integers, Sequences, FiniteSets, TLC

VARIABLES
    input,      \* the &str handed to Id::from_str
    parsed,     \* what from_str returned for input (NoResult before the call)
    ida, idb,   \* two identifiers built by Id::new
    ord,        \* ida.cmp(&idb) ("none" before the call)
    shown,      \* ida.to_string() (<<>> before the call)
    reparsed,   \* shown.parse::<Id<T>>() (NoResult before the call)
    once,       \* state of the LazyLock behind the static registry table
    built,      \* how many times the LazyLock's closure (RegTab::new) has run
    seen,       \* per thread: the table instance reg_tab() last handed to it
    tab,        \* the DashMap: key string -> value, or Absent
    ptrs,       \* per thread: the Rp values it holds alive
    pc,         \* per thread: where it is (idle, or parked inside a call)
    pending,    \* per thread: the write call it is parked in (op and key)
    last,       \* the call that returned most recently, with its arguments and result
    panicked    \* TRUE once an unwrap() has panicked

idVars == <<input, parsed, ida, idb, ord, shown, reparsed>>
regVars == <<once, built, seen, tab, ptrs, pc, pending, last, panicked>>
vars == <<input, parsed, ida, idb, ord, shown, reparsed,
          once, built, seen, tab, ptrs, pc, pending, last, panicked>>

-----------------------------------------------------------------------------
(* Bytes and bounds *)

\* '/' : the separator of the string representation
SLASH == 47
\* capacity of ArrayString<12>
CAP == 12
\* '-' sorts below '/', 'a' sorts above it
HYPHEN == 45
LETTER_A == 97

Chars == {HYPHEN, LETTER_A}

\* longest freely generated part
MaxShort == 2
\* most pieces (separators + 1) of a string handed to from_str
MaxPieces == 3

NoResult == [ok |-> FALSE, err |-> "none", val |-> <<>>]

RECURSIVE Pad(_)
Pad(n) == IF n <= 0 THEN <<>> ELSE <<LETTER_A>> \o Pad(n - 1)

StrsOfLen(n) == [1..n -> Chars]
ShortStrs == UNION {StrsOfLen(n) : n \in 1..MaxShort}

\* parts that satisfy ^[a-zA-Z0-9._-]{1,12}$ : short ones, and ones at the capacity
ValidParts == ShortStrs \cup {Pad(CAP), <<HYPHEN>> \o Pad(CAP - 1), Pad(CAP - 1)}

\* pieces of an arbitrary input: empty, short, just below / at / above the capacity
Pieces == {p \o Pad(n) : p \in {<<>>, <<HYPHEN>>, <<LETTER_A>>},
                         n \in {0, CAP - 1, CAP, CAP + 1}}

RECURSIVE Join(_)
Join(ps) == IF Len(ps) = 1 THEN ps[1] ELSE ps[1] \o <<SLASH>> \o Join(Tail(ps))

InputStrs == UNION {{Join(ps) : ps \in [1..n -> Pieces]} : n \in 1..MaxPieces}

-----------------------------------------------------------------------------
(* id.rs *)

\* Id::new
Id_new(module, name) == [module |-> module, name |-> name]

ValidIds == {Id_new(m, n) : m \in ValidParts, n \in ValidParts}

\* str::split('/').collect::<Vec<_>>()
RECURSIVE split(_, _)
split(s, acc) ==
    IF s = <<>> THEN <<acc>>
    ELSE IF Head(s) = SLASH THEN <<acc>> \o split(Tail(s), <<>>)
    ELSE split(Tail(s), Append(acc, Head(s)))

\* ArrayString::<12>::from(part).map_err(CapacityError::simplify)
ArrayString_from(part) ==
    IF Len(part) > CAP THEN [ok |-> FALSE, err |-> "Length", val |-> <<>>]
    ELSE [ok |-> TRUE, err |-> "none", val |-> part]

\* from_str that forgets the capacity check of the name part
from_str_name_unchecked(s) ==
    LET parts == split(s, <<>>) IN
    IF Len(parts) # 2 THEN [ok |-> FALSE, err |-> "InvalidParts", val |-> <<>>]
    ELSE LET module == ArrayString_from(parts[1]) IN
         IF ~module.ok THEN module
         ELSE [ok |-> TRUE, err |-> "none", val |-> Id_new(module.val, parts[2])]

\* from_str that measures every piece before it counts them
from_str_lengths_first(s) ==
    LET parts == split(s, <<>>) IN
    IF \E i \in 1..Len(parts) : Len(parts[i]) > CAP
    THEN [ok |-> FALSE, err |-> "Length", val |-> <<>>]
    ELSE IF Len(parts) # 2 THEN [ok |-> FALSE, err |-> "InvalidParts", val |-> <<>>]
    ELSE [ok |-> TRUE, err |-> "none", val |-> Id_new(parts[1], parts[2])]

\* <Id<T> as FromStr>::from_str
from_str(s) ==
    LET parts == split(s, <<>>) IN
    IF Len(parts) # 2 THEN [ok |-> FALSE, err |-> "InvalidParts", val |-> <<>>]
    ELSE LET module == ArrayString_from(parts[1]) IN
         IF ~module.ok THEN module
         ELSE LET name == ArrayString_from(parts[2]) IN
              IF ~name.ok THEN name
              ELSE [ok |-> TRUE, err |-> "none", val |-> Id_new(module.val, name.val)]

\* Display that writes the two parts with nothing between them
to_string_nosep(i) == i.module \o i.name

\* Display that writes ':' between the parts
to_string_colon(i) == i.module \o <<58>> \o i.name

\* <Id<T> as Display>::fmt, through to_string()
to_string(i) == i.module \o <<SLASH>> \o i.name

\* <str as Ord>::cmp : byte-wise lexicographic, a proper prefix is Less
RECURSIVE str_cmp(_, _)
str_cmp(x, y) ==
    IF x = <<>> /\ y = <<>> THEN "Equal"
    ELSE IF x = <<>> THEN "Less"
    ELSE IF y = <<>> THEN "Greater"
    ELSE IF Head(x) < Head(y) THEN "Less"
    ELSE IF Head(x) > Head(y) THEN "Greater"
    ELSE str_cmp(Tail(x), Tail(y))

\* <IdInner<T> as Ord>::cmp
IdInner_cmp(a, b) ==
    LET m == str_cmp(a.module, b.module) IN
    IF m = "Equal" THEN str_cmp(a.name, b.name) ELSE m

\* <IdInner<T> as PartialEq>::eq
IdInner_eq(a, b) == a.module = b.module /\ a.name = b.name

\* id(): id.parse().unwrap() ; ok = FALSE stands for the panic
id(s) == from_str(s)

-----------------------------------------------------------------------------
(* The two harnesses of the pure Id functions *)

NoId == Id_new(<<>>, <<>>)

IdIdle ==
    /\ input = <<>> /\ parsed = NoResult
    /\ ida = NoId /\ idb = NoId /\ ord = "none"
    /\ shown = <<>> /\ reparsed = NoResult

\* s.parse::<Id<T>>()
Parse ==
    /\ parsed = NoResult
    /\ parsed' = from_str(input)
    /\ UNCHANGED <<input, ida, idb, ord, shown, reparsed>>

\* ida.cmp(&idb)
Cmp ==
    /\ ord = "none"
    /\ ord' = IdInner_cmp(ida, idb)
    /\ UNCHANGED <<input, parsed, ida, idb, shown, reparsed>>

\* ida.to_string()
Show ==
    /\ ord # "none" /\ shown = <<>>
    /\ shown' = to_string(ida)
    /\ UNCHANGED <<input, parsed, ida, idb, ord, reparsed>>

\* ida.to_string().parse::<Id<T>>()
Reparse ==
    /\ shown # <<>> /\ reparsed = NoResult
    /\ reparsed' = from_str(shown)
    /\ UNCHANGED <<input, parsed, ida, idb, ord, shown>>

-----------------------------------------------------------------------------
(* tab.rs and lib.rs: the registry table and the pointers into it *)

\* threads of the process
NumThreads == 2
\* Rp values the process keeps alive at a time
MaxPtrs == 2
\* resource values are 1..MaxVal (T is opaque)
MaxVal == 2
\* shards of the DashMap
NumShards == 2

Threads == 1..NumThreads
Vals == 1..MaxVal
Absent == 0

\* the identifiers resources are registered under
RegIds == {Id_new(<<LETTER_A>>, <<LETTER_A>>), Id_new(<<LETTER_A>>, <<HYPHEN, LETTER_A>>)}
\* RegTab<T>(DashMap<&'static str, T>): the keys are the string forms
Keys == {to_string(i) : i \in RegIds}

NoPtr == [kind |-> "none", key |-> <<>>, val |-> Absent]
\* Rp::Registered(Ref<'static, &'static str, T>): a guard on the entry of key k
Registered(k) == [kind |-> "Registered", key |-> k, val |-> Absent]
\* Rp::Orphan(Box<T>)
Orphan(v) == [kind |-> "Orphan", key |-> <<>>, val |-> v]

NoWire == [tag |-> "none", id |-> <<>>, val |-> Absent]
\* SerdeRp::Registered(Id<T>), renamed "r": the identifier as a string
WireR(str) == [tag |-> "r", id |-> str, val |-> Absent]
\* SerdeRp::Orphan(Box<T>), renamed "o": the value inline
WireO(v) == [tag |-> "o", id |-> <<>>, val |-> v]

\* bytes that did not come from this process: every key, a string with no
\* separator, and every inline value
ForeignWires == {WireR(k) : k \in Keys \cup {<<LETTER_A>>}} \cup {WireO(v) : v \in Vals}

NoErr == [kind |-> "none", id |-> <<>>, unexpected |-> "", expected |-> ""]
\* D::Error::invalid_value(Unexpected::StructVariant, &"an orphan or registered id")
InvalidValue == [kind |-> "invalid_value", id |-> <<>>,
                 unexpected |-> "StructVariant", expected |-> "an orphan or registered id"]
\* the error of DeserializeFromStr when Id::from_str fails
DecodeErr(e) == [kind |-> e, id |-> <<>>, unexpected |-> "", expected |-> ""]

Returned(op, key, w, src, ok, err, ptr, ret) ==
    [op |-> op, key |-> key, arg |-> Absent, wire |-> w, src |-> src,
     ok |-> ok, err |-> err, ptr |-> ptr, ret |-> ret]
NoCall == Returned("none", <<>>, NoWire, NoPtr, FALSE, NoErr, NoPtr, Absent)
NoPending == [op |-> "none", key |-> <<>>]

RECURSIVE Sum(_)
Sum(s) == IF s = <<>> THEN 0 ELSE Head(s) + Sum(Tail(s))
\* DashMap::determine_map: the shard a key hashes to
ShardOf(k) == Sum(k) % NumShards

\* an Rp::Registered that keeps the key only and no Ref guard
Readers_unguarded(s) == {}

\* the Ref guards alive on shard s: every live Rp::Registered holds the shard's
\* read lock until it is dropped
Readers(s) ==
    {<<t, i>> \in Threads \X (1..MaxPtrs) :
        /\ i <= Len(ptrs[t])
        /\ ptrs[t][i].kind = "Registered"
        /\ ShardOf(ptrs[t][i].key) = s}

\* RwLock::write on the shard of k succeeds at once only with no reader on it
CanWrite(k) == Readers(ShardOf(k)) = {}

RECURSIVE LiveIn(_)
LiveIn(ts) == IF ts = {} THEN 0
              ELSE LET t == CHOOSE x \in ts : TRUE IN Len(ptrs[t]) + LiveIn(ts \ {t})
\* the Rp values alive in the process
Live == LiveIn(Threads)

\* <Rp<T> as Deref>::deref
Rp_deref(p) == IF p.kind = "Registered" THEN tab[p.key] ELSE p.val

RegInit ==
    /\ once = "uninit" /\ built = 0
    /\ seen = [t \in Threads |-> 0]
    /\ tab = [k \in Keys |-> Absent]
    /\ ptrs = [t \in Threads |-> <<>>]
    /\ pc = [t \in Threads |-> "idle"]
    /\ pending = [t \in Threads |-> NoPending]
    /\ last = NoCall
    /\ panicked = FALSE

(* def_regtab!: static _REGTAB: LazyLock<RegTab<T>> = LazyLock::new(|| RegTab::new()) *)

\* an unsynchronized lazy cell: check, then construct
CanStartInit_racy == once # "complete"

\* LazyLock: the closure is started only by the thread that finds the cell untouched
CanStartInit == once = "uninit"

\* first touch of the static: this thread runs the closure
ForceStart(t) ==
    /\ pc[t] = "idle" /\ seen[t] = 0
    /\ CanStartInit
    /\ once' = "running"
    /\ pc' = [pc EXCEPT ![t] = "init"]
    /\ UNCHANGED <<built, seen, tab, ptrs, pending, last, panicked>>

\* the closure: RegTab::new(), an empty DashMap; the cell becomes complete
ForceRun(t) ==
    /\ pc[t] = "init"
    /\ built' = built + 1
    /\ tab' = [k \in Keys |-> Absent]
    /\ once' = "complete"
    /\ seen' = [seen EXCEPT ![t] = built + 1]
    /\ pc' = [pc EXCEPT ![t] = "idle"]
    /\ UNCHANGED <<ptrs, pending, last, panicked>>

\* first touch while another thread runs the closure: block on the cell
ForceWait(t) ==
    /\ pc[t] = "idle" /\ seen[t] = 0
    /\ once = "running" /\ ~CanStartInit
    /\ pc' = [pc EXCEPT ![t] = "init_wait"]
    /\ UNCHANGED <<once, built, seen, tab, ptrs, pending, last, panicked>>

\* the closure has finished: the blocked thread gets the completed table
ForceWake(t) ==
    /\ pc[t] = "init_wait" /\ once = "complete"
    /\ seen' = [seen EXCEPT ![t] = built]
    /\ pc' = [pc EXCEPT ![t] = "idle"]
    /\ UNCHANGED <<once, built, tab, ptrs, pending, last, panicked>>

\* HasRegTab::reg_tab() on a complete cell: &_REGTAB
reg_tab(t) ==
    /\ pc[t] = "idle" /\ once = "complete"
    /\ seen' = [seen EXCEPT ![t] = built]
    /\ UNCHANGED <<once, built, tab, ptrs, pc, pending, last, panicked>>

(* RegTab derefs to the DashMap: insert, remove and get take &self *)

\* an insert that keeps the entry a key already has (entry(k).or_insert(v))
DashMap_insert_if_absent(k, v) ==
    /\ tab' = [tab EXCEPT ![k] = IF @ = Absent THEN v ELSE @]
    /\ last' = [Returned("insert", k, NoWire, NoPtr, TRUE, NoErr, NoPtr, tab[k])
                EXCEPT !.arg = v]

\* DashMap::insert(k, v) once the shard's write lock is held: Option<T> of the old
\* value; arg is the value the caller passed
DashMap_insert(k, v) ==
    /\ tab' = [tab EXCEPT ![k] = v]
    /\ last' = [Returned("insert", k, NoWire, NoPtr, TRUE, NoErr, NoPtr, tab[k])
                EXCEPT !.arg = v]

\* DashMap::remove(k) once the shard's write lock is held: Option<(K, T)> of the entry
DashMap_remove(k) ==
    /\ tab' = [tab EXCEPT ![k] = Absent]
    /\ last' = Returned("remove", k, NoWire, NoPtr, TRUE, NoErr, NoPtr, tab[k])

\* reg_tab().insert(k, v) with the shard free
Insert(t, k, v) ==
    /\ pc[t] = "idle" /\ seen[t] # 0
    /\ CanWrite(k)
    /\ DashMap_insert(k, v)
    /\ UNCHANGED <<once, built, seen, ptrs, pc, pending, panicked>>

\* reg_tab().remove(k) with the shard free
Remove(t, k) ==
    /\ pc[t] = "idle" /\ seen[t] # 0
    /\ CanWrite(k)
    /\ DashMap_remove(k)
    /\ UNCHANGED <<once, built, seen, ptrs, pc, pending, panicked>>

\* insert or remove on k while a Ref is alive on its shard: the caller blocks
\* in RwLock::write
Park(t, op, k) ==
    /\ pc[t] = "idle" /\ seen[t] # 0
    /\ ~CanWrite(k)
    /\ pc' = [pc EXCEPT ![t] = "parked"]
    /\ pending' = [pending EXCEPT ![t] = [op |-> op, key |-> k]]
    /\ UNCHANGED <<once, built, seen, tab, ptrs, last, panicked>>

\* the last Ref on the shard was dropped: the blocked call gets the write lock
\* and stores its argument v (unused by remove)
Resume(t, v) ==
    /\ pc[t] = "parked"
    /\ CanWrite(pending[t].key)
    /\ IF pending[t].op = "insert"
       THEN DashMap_insert(pending[t].key, v)
       ELSE DashMap_remove(pending[t].key)
    /\ pc' = [pc EXCEPT ![t] = "idle"]
    /\ pending' = [pending EXCEPT ![t] = NoPending]
    /\ UNCHANGED <<once, built, seen, ptrs, panicked>>

\* reg_tab().get(k): Some(Ref), kept as Rp::Registered, or None
Get(t, k) ==
    /\ pc[t] = "idle" /\ seen[t] # 0
    /\ IF tab[k] # Absent
       THEN /\ Live < MaxPtrs
            /\ ptrs' = [ptrs EXCEPT ![t] = Append(@, Registered(k))]
            /\ last' = Returned("get", k, NoWire, NoPtr, TRUE, NoErr, Registered(k), tab[k])
       ELSE /\ ptrs' = ptrs
            /\ last' = Returned("get", k, NoWire, NoPtr, FALSE, NoErr, NoPtr, Absent)
    /\ UNCHANGED <<once, built, seen, tab, pc, pending, panicked>>

\* an error that names no identifier
ResNotFoundError_anonymous(k) ==
    [kind |-> "ResourceNotFound", id |-> <<>>, unexpected |-> "", expected |-> ""]

\* ResNotFoundError { id }: "resource not found for {id}"
ResNotFoundError(k) ==
    [kind |-> "ResourceNotFound", id |-> k, unexpected |-> "", expected |-> ""]

\* reg_tab().resolve(k): get, with None turned into ResNotFoundError
Resolve(t, k) ==
    /\ pc[t] = "idle" /\ seen[t] # 0
    /\ IF tab[k] # Absent
       THEN /\ Live < MaxPtrs
            /\ ptrs' = [ptrs EXCEPT ![t] = Append(@, Registered(k))]
            /\ last' = Returned("resolve", k, NoWire, NoPtr, TRUE, NoErr, Registered(k), tab[k])
       ELSE /\ ptrs' = ptrs
            /\ last' = Returned("resolve", k, NoWire, NoPtr, FALSE, ResNotFoundError(k),
                                NoPtr, Absent)
    /\ UNCHANGED <<once, built, seen, tab, pc, pending, panicked>>

\* Rp::Orphan(Box::new(v))
NewOrphan(t, v) ==
    /\ pc[t] = "idle"
    /\ Live < MaxPtrs
    /\ ptrs' = [ptrs EXCEPT ![t] = Append(@, Orphan(v))]
    /\ UNCHANGED <<once, built, seen, tab, pc, pending, last, panicked>>

\* drop(p): a Registered pointer releases its Ref
Drop(t, i) ==
    /\ pc[t] = "idle"
    /\ i \in 1..Len(ptrs[t])
    /\ ptrs' = [ptrs EXCEPT ![t] = SubSeq(@, 1, i - 1) \o SubSeq(@, i + 1, Len(@))]
    /\ UNCHANGED <<once, built, seen, tab, pc, pending, last, panicked>>

(* lib.rs: Clone, Serialize and Deserialize of Rp<T> *)

\* T::reg_tab().get(key): the DashMap lookup behind clone and deserialize
tab_get(k) == IF k \in DOMAIN tab THEN tab[k] ELSE Absent

\* clone that copies the registered value out of the table into a new box
Rp_clone_deep(p) ==
    IF p.kind = "Registered"
    THEN IF tab_get(p.key) # Absent
         THEN [ok |-> TRUE, ptr |-> Orphan(tab_get(p.key))]
         ELSE [ok |-> FALSE, ptr |-> NoPtr]
    ELSE [ok |-> TRUE, ptr |-> Orphan(p.val)]

\* <Rp<T> as Clone>::clone ; ok = FALSE stands for the panic of unwrap()
Rp_clone(p) ==
    IF p.kind = "Registered"
    THEN IF tab_get(p.key) # Absent
         THEN [ok |-> TRUE, ptr |-> Registered(p.key)]
         ELSE [ok |-> FALSE, ptr |-> NoPtr]
    ELSE [ok |-> TRUE, ptr |-> Orphan(p.val)]

\* serialize that writes every pointer by value
Rp_serialize_inline(p) ==
    [ok |-> TRUE, wire |-> WireO(Rp_deref(p))]

\* <Rp<T> as Serialize>::serialize: (*id.key()).into() makes the Id, which is
\* written through Display (SerializeDisplay)
Rp_serialize(p) ==
    IF p.kind = "Registered"
    THEN LET i == id(p.key) IN
         IF i.ok THEN [ok |-> TRUE, wire |-> WireR(to_string(i.val))]
         ELSE [ok |-> FALSE, wire |-> NoWire]
    ELSE [ok |-> TRUE, wire |-> WireO(p.val)]

\* deserialize that turns an inline value the table already holds into a pointer
\* to that entry
Rp_deserialize_interning(w) ==
    IF w.tag = "r"
    THEN LET i == from_str(w.id) IN
         IF ~i.ok THEN [ok |-> FALSE, err |-> DecodeErr(i.err), ptr |-> NoPtr]
         ELSE IF tab_get(to_string(i.val)) # Absent
              THEN [ok |-> TRUE, err |-> NoErr, ptr |-> Registered(to_string(i.val))]
              ELSE [ok |-> FALSE, err |-> InvalidValue, ptr |-> NoPtr]
    ELSE IF \E k \in DOMAIN tab : tab[k] = w.val
         THEN [ok |-> TRUE, err |-> NoErr,
               ptr |-> Registered(CHOOSE k \in DOMAIN tab : tab[k] = w.val)]
         ELSE [ok |-> TRUE, err |-> NoErr, ptr |-> Orphan(w.val)]

\* deserialize that hands back a copy of the registered value
Rp_deserialize_copy(w) ==
    IF w.tag = "r"
    THEN LET i == from_str(w.id) IN
         IF ~i.ok THEN [ok |-> FALSE, err |-> DecodeErr(i.err), ptr |-> NoPtr]
         ELSE IF tab_get(to_string(i.val)) # Absent
              THEN [ok |-> TRUE, err |-> NoErr, ptr |-> Orphan(tab_get(to_string(i.val)))]
              ELSE [ok |-> FALSE, err |-> InvalidValue, ptr |-> NoPtr]
    ELSE [ok |-> TRUE, err |-> NoErr, ptr |-> Orphan(w.val)]

\* <Rp<T> as Deserialize>::deserialize: the Id is read through FromStr
\* (DeserializeFromStr), then looked up with tab.get(&*id)
Rp_deserialize(w) ==
    IF w.tag = "r"
    THEN LET i == from_str(w.id) IN
         IF ~i.ok THEN [ok |-> FALSE, err |-> DecodeErr(i.err), ptr |-> NoPtr]
         ELSE IF tab_get(to_string(i.val)) # Absent
              THEN [ok |-> TRUE, err |-> NoErr, ptr |-> Registered(to_string(i.val))]
              ELSE [ok |-> FALSE, err |-> InvalidValue, ptr |-> NoPtr]
    ELSE [ok |-> TRUE, err |-> NoErr, ptr |-> Orphan(w.val)]

\* let q = ptrs[t][i].clone()
Clone(t, i) ==
    /\ pc[t] = "idle"
    /\ i \in 1..Len(ptrs[t])
    /\ Live < MaxPtrs
    /\ LET r == Rp_clone(ptrs[t][i]) IN
       /\ panicked' = (panicked \/ ~r.ok)
       /\ ptrs' = [ptrs EXCEPT ![t] = IF r.ok THEN Append(@, r.ptr) ELSE @]
       /\ last' = Returned("clone", <<>>, NoWire, ptrs[t][i],
                           r.ok, NoErr, r.ptr, Absent)
    /\ UNCHANGED <<once, built, seen, tab, pc, pending>>

\* ptrs[t][i].serialize(serializer): the call returns the bytes
Serialize(t, i) ==
    /\ pc[t] = "idle"
    /\ i \in 1..Len(ptrs[t])
    /\ LET r == Rp_serialize(ptrs[t][i]) IN
       /\ panicked' = (panicked \/ ~r.ok)
       /\ last' = Returned("serialize", <<>>, r.wire, ptrs[t][i],
                           r.ok, NoErr, NoPtr, Absent)
    /\ UNCHANGED <<once, built, seen, tab, ptrs, pc, pending>>

\* deserialize with `let tab = T::reg_tab()` hoisted above the match on the tag
Decode_eager(t, w, src) ==
    /\ pc[t] = "idle"
    /\ LET r == Rp_deserialize(w) IN
       /\ once = "complete"
       /\ seen' = [seen EXCEPT ![t] = built]
       /\ r.ok => Live < MaxPtrs
       /\ ptrs' = [ptrs EXCEPT ![t] = IF r.ok THEN Append(@, r.ptr) ELSE @]
       /\ last' = Returned("deserialize", <<>>, w, src, r.ok, r.err, r.ptr, Absent)
    /\ UNCHANGED <<once, built, tab, pc, pending, panicked>>

\* deserialize that reserves the entry before the lookup and leaves the
\* placeholder behind when the lookup fails
Decode_placeholder(t, w, src) ==
    /\ pc[t] = "idle"
    /\ LET looksUp == w.tag = "r" /\ from_str(w.id).ok
           r == Rp_deserialize(w) IN
       /\ looksUp => once = "complete"
       /\ seen' = [seen EXCEPT ![t] = IF looksUp THEN built ELSE @]
       /\ r.ok => Live < MaxPtrs
       /\ ptrs' = [ptrs EXCEPT ![t] = IF r.ok THEN Append(@, r.ptr) ELSE @]
       /\ tab' = IF looksUp /\ ~r.ok /\ w.id \in DOMAIN tab
                 THEN [tab EXCEPT ![w.id] = 1] ELSE tab
       /\ last' = Returned("deserialize", <<>>, w, src, r.ok, r.err, r.ptr, Absent)
    /\ UNCHANGED <<once, built, pc, pending, panicked>>

\* Rp::<T>::deserialize(deserializer) by thread t on the bytes w, which were
\* serialized from src (NoPtr when they come from another process)
Decode(t, w, src) ==
    /\ pc[t] = "idle"
    /\ LET looksUp == w.tag = "r" /\ from_str(w.id).ok
           r == Rp_deserialize(w) IN
       /\ looksUp => once = "complete"
       /\ seen' = [seen EXCEPT ![t] = IF looksUp THEN built ELSE @]
       /\ r.ok => Live < MaxPtrs
       /\ ptrs' = [ptrs EXCEPT ![t] = IF r.ok THEN Append(@, r.ptr) ELSE @]
       /\ last' = Returned("deserialize", <<>>, w, src, r.ok, r.err, r.ptr, Absent)
    /\ UNCHANGED <<once, built, tab, pc, pending, panicked>>

\* the bytes that serialize has just returned are deserialized
Deserialize(t) ==
    /\ last.op = "serialize" /\ last.ok
    /\ Decode(t, last.wire, last.src)

\* bytes written by another process are deserialized
DeserializeForeign(t, w) ==
    /\ Decode(t, w, NoPtr)

-----------------------------------------------------------------------------
(* Specifications *)

Init == IdIdle /\ RegInit

Next ==
    \/ \E t \in Threads : ForceStart(t) /\ UNCHANGED idVars
    \/ \E t \in Threads : ForceRun(t) /\ UNCHANGED idVars
    \/ \E t \in Threads : ForceWait(t) /\ UNCHANGED idVars
    \/ \E t \in Threads : ForceWake(t) /\ UNCHANGED idVars
    \/ \E t \in Threads : reg_tab(t) /\ UNCHANGED idVars
    \/ \E t \in Threads, k \in Keys, v \in Vals : Insert(t, k, v) /\ UNCHANGED idVars
    \/ \E t \in Threads, k \in Keys : Remove(t, k) /\ UNCHANGED idVars
    \/ \E t \in Threads, k \in Keys : Park(t, "insert", k) /\ UNCHANGED idVars
    \/ \E t \in Threads, k \in Keys : Park(t, "remove", k) /\ UNCHANGED idVars
    \/ \E t \in Threads, v \in Vals : Resume(t, v) /\ UNCHANGED idVars
    \/ \E t \in Threads, k \in Keys : Get(t, k) /\ UNCHANGED idVars
    \/ \E t \in Threads, k \in Keys : Resolve(t, k) /\ UNCHANGED idVars
    \/ \E t \in Threads, v \in Vals : NewOrphan(t, v) /\ UNCHANGED idVars
    \/ \E t \in Threads, i \in 1..MaxPtrs : Drop(t, i) /\ UNCHANGED idVars
    \/ \E t \in Threads, i \in 1..MaxPtrs : Clone(t, i) /\ UNCHANGED idVars
    \/ \E t \in Threads, i \in 1..MaxPtrs : Serialize(t, i) /\ UNCHANGED idVars
    \/ \E t \in Threads, w \in ForeignWires : DeserializeForeign(t, w) /\ UNCHANGED idVars
    \/ \E t \in Threads : Deserialize(t) /\ UNCHANGED idVars

\* the registry: threads using the static table and pointers into it
Spec == Init /\ [][Next]_vars

InitParse ==
    /\ input \in InputStrs /\ parsed = NoResult
    /\ ida = NoId /\ idb = NoId /\ ord = "none"
    /\ shown = <<>> /\ reparsed = NoResult
    /\ RegInit

NextParse == Parse /\ UNCHANGED regVars

\* Id::from_str on every input string
SpecParse == InitParse /\ [][NextParse]_vars

InitId ==
    /\ input = <<>> /\ parsed = NoResult
    /\ ida \in ValidIds /\ idb \in ValidIds /\ ord = "none"
    /\ shown = <<>> /\ reparsed = NoResult
    /\ RegInit

NextId ==
    \/ Cmp /\ UNCHANGED regVars
    \/ Show /\ UNCHANGED regVars
    \/ Reparse /\ UNCHANGED regVars

\* Ord, Display and FromStr on every pair of valid identifiers
SpecId == InitId /\ [][NextId]_vars

-----------------------------------------------------------------------------
(* Properties *)

\* number of '/' bytes in s
SepCount(s) == Cardinality({i \in DOMAIN s : s[i] = SLASH})
\* where the first '/' of s is
SepPos(s) == CHOOSE i \in DOMAIN s : s[i] = SLASH /\ \A j \in 1..(i - 1) : s[j] # SLASH

\* C1: for all identifiers a and b with valid parts, a.cmp(b) (module first, then
\* name) is the byte-wise comparison of their string forms "module/name".
C1_OrderingConsistency ==
    ord # "none" => ord = str_cmp(to_string(ida), to_string(idb))

\* C2: once the global binding has handed the table out, its key set and every
\* value stay fixed: no step inserts into it, removes from it or changes a value.
C2_FrozenAfterBuild ==
    [][once = "complete" => tab' = tab]_vars

\* C3: the key of every live Registered pointer is present in the table, whatever
\* the other calls on the table are, and no clone has panicked on its unwrap().
C3_RegisteredKeyPresent ==
    /\ ~panicked
    /\ \A t \in Threads : \A i \in 1..Len(ptrs[t]) :
          ptrs[t][i].kind = "Registered" => tab_get(ptrs[t][i].key) # Absent

\* a Registered pointer and its clone are alive while another thread's remove of
\* their key is blocked
C3_Witness ==
    \E t \in Threads, u \in Threads :
        /\ t # u
        /\ Len(ptrs[t]) = 2
        /\ ptrs[t][1].kind = "Registered" /\ ptrs[t][2] = ptrs[t][1]
        /\ last.op = "clone" /\ last.ok
        /\ pc[u] = "parked"
        /\ pending[u] = [op |-> "remove", key |-> ptrs[t][1].key]

\* C4: once the table is constructed no call waits for another thread or for a
\* live pointer to be dropped: no thread is ever parked inside a call.
C4_NeverWaits ==
    \A t \in Threads : once = "complete" => pc[t] # "parked"

C5_OneInstance ==
    /\ built <= 1
    /\ \A t \in Threads : seen[t] # 0 => (seen[t] = 1 /\ built = 1 /\ once = "complete")

\* C5: under concurrent first access the constructor runs exactly once, every
\* thread that has the table has the one instance, completely constructed, and
\* the instance a thread has is never replaced by a later call.
C5_SingleFlight ==
    /\ []C5_OneInstance
    /\ [][\A t \in Threads : seen[t] # 0 => seen'[t] = seen[t]]_vars

\* the closure has run once while another thread was blocked on the first touch
C5_Witness ==
    \E t \in Threads, u \in Threads :
        /\ t # u
        /\ pc[u] = "init_wait"
        /\ once = "complete" /\ built = 1 /\ seen[t] = 1

\* C6: deserializing tag r with a well-formed identifier that the table does not
\* hold fails with a ResourceNotFound error carrying that identifier, and gives
\* no pointer.
C6_NotFoundCarriesId ==
    (/\ last.op = "deserialize"
     /\ last.wire.tag = "r"
     /\ from_str(last.wire.id).ok
     /\ ~last.ok)
    => (/\ last.err.kind = "ResourceNotFound"
        /\ last.err.id = last.wire.id
        /\ last.ptr = NoPtr)

\* C7: deserializing the serialized form of a Registered pointer whose key the
\* table holds gives a Registered pointer with the same key, which dereferences
\* to the value the table holds for it.
C7_RoundTrip ==
    [][(/\ last.op = "serialize" /\ last.ok
        /\ last'.op = "deserialize" /\ last'.src = last.src
        /\ last.src.kind = "Registered"
        /\ tab_get(last.src.key) # Absent)
       => (/\ last'.ok
           /\ last'.ptr.kind = "Registered"
           /\ last'.ptr.key = last.src.key
           /\ \E t \in Threads : ptrs'[t] = Append(ptrs[t], last'.ptr)
           /\ tab'[last'.ptr.key] = tab[last.src.key])]_vars

\* a serialized Registered pointer came back as a Registered pointer
C7_Witness ==
    /\ last.op = "deserialize" /\ last.ok
    /\ last.src.kind = "Registered"
    /\ last.ptr.kind = "Registered"
    /\ last.ptr.key = last.src.key
    /\ tab_get(last.ptr.key) \in Vals

\* C8: for every valid identifier, parsing its string form succeeds and returns
\* an identifier equal to it.
C8_ParseOfDisplay ==
    reparsed # NoResult => (reparsed.ok /\ IdInner_eq(reparsed.val, ida))

\* an identifier with both parts at the capacity went through to_string and parse
C8_Witness ==
    /\ reparsed.ok
    /\ Len(ida.module) = CAP /\ Len(ida.name) = CAP
    /\ Len(shown) = CAP + 1 + CAP

\* C9: every identifier parse returns has a non-empty module and a non-empty
\* name, each of at most 12 bytes.
C9_ParsedPartsInRange ==
    parsed.ok => (/\ Len(parsed.val.module) \in 1..CAP
                  /\ Len(parsed.val.name) \in 1..CAP)

\* C10: parse fails with InvalidParts when the separator count is not one, and
\* with the length error when there is one separator and a part is longer than
\* 12 bytes; no identifier is returned in either case.
C10_Rejection ==
    parsed # NoResult =>
        /\ SepCount(input) # 1 =>
              (~parsed.ok /\ parsed.err = "InvalidParts" /\ parsed.val = <<>>)
        /\ (/\ SepCount(input) = 1
            /\ (SepPos(input) - 1 > CAP \/ Len(input) - SepPos(input) > CAP)) =>
              (~parsed.ok /\ parsed.err = "Length" /\ parsed.val = <<>>)

\* one separator, the module within the capacity and the name one byte over it
C10_Witness ==
    /\ parsed.err = "Length"
    /\ SepCount(input) = 1
    /\ SepPos(input) - 1 <= CAP
    /\ Len(input) - SepPos(input) = CAP + 1

\* what a call on an Orphan leaves alone: the cell of the static, the table it
\* holds, and which threads have touched it
C11_TableUntouched ==
    /\ tab' = tab /\ once' = once /\ built' = built /\ seen' = seen
    /\ pc' = pc /\ pending' = pending

\* C11: serializing or deserializing an Orphan neither reads nor writes the global
\* table: tag o decodes to an Orphan holding the decoded value whatever the table
\* holds, even with the table never constructed, and the table is the same after.
C11_OrphanIndependence ==
    /\ [](last.op = "deserialize" /\ last.wire.tag = "o"
            => last.ok /\ last.ptr = Orphan(last.wire.val))
    /\ [](last.op = "serialize" /\ last.src.kind = "Orphan"
            => last.ok /\ last.wire = WireO(last.src.val))
    /\ [][(/\ last'.op = "deserialize" /\ last'.wire.tag = "o"
           /\ \/ last' # last
              \/ \E t \in Threads : ptrs'[t] = Append(ptrs[t], Orphan(last'.wire.val)))
          => C11_TableUntouched]_vars
    /\ [][(/\ last'.op = "serialize" /\ last'.src.kind = "Orphan"
           /\ last' # last)
          => (C11_TableUntouched /\ ptrs' = ptrs)]_vars

\* an Orphan was serialized and decoded again before any thread touched the table
C11_Witness ==
    /\ last.op = "deserialize" /\ last.ok
    /\ last.src.kind = "Orphan"
    /\ last.ptr = last.src
    /\ once = "uninit"
    /\ \E t \in Threads : Len(ptrs[t]) = 2 /\ ptrs[t][2] = last.ptr

\* what every live pointer dereferences to
Derefs == [t \in Threads |-> [i \in 1..Len(ptrs[t]) |-> Rp_deref(ptrs[t][i])]]

\* C12: a deserialization of tag r that fails (identifier malformed or absent from
\* the table) leaves the table's keys and values as they were, adds and removes
\* no pointer, and every pointer resolved earlier dereferences to the same value.
C12_FailedDecodeFrame ==
    [][(/\ last'.op = "deserialize" /\ last'.wire.tag = "r"
        /\ ~last'.ok)
       => (/\ tab' = tab
           /\ last'.ptr = NoPtr
           /\ last' # last => (/\ ptrs' = ptrs
                               /\ Derefs' = Derefs
                               /\ once' = once /\ built' = built))]_vars

\* a well-formed identifier the table does not hold failed to decode while a
\* pointer resolved earlier is alive on another entry
C12_Witness ==
    /\ last.op = "deserialize" /\ ~last.ok
    /\ last.err = InvalidValue
    /\ last.wire.id \in Keys /\ tab[last.wire.id] = Absent
    /\ \E t \in Threads : \E i \in 1..Len(ptrs[t]) :
          /\ ptrs[t][i].kind = "Registered"
          /\ Rp_deref(ptrs[t][i]) \in Vals

\* C13: insert(k, v) stores v under k and returns the value k had (None for a new
\* key) in one step; every other key keeps its entry; whatever the interleaving
\* of inserts, the entry of the key last inserted is the value passed to that
\* insert, and every entry is absent or one whole value.
C13_InsertOverwrites ==
    /\ [](last.op = "insert" => (last.ok /\ last.arg \in Vals /\ tab[last.key] = last.arg))
    /\ [](\A k \in Keys : tab[k] \in Vals \cup {Absent})
    /\ [][(/\ last'.op = "insert"
           /\ last' # last \/ tab' # tab)
          => (/\ tab' = [tab EXCEPT ![last'.key] = last'.arg]
              /\ last'.ret = tab[last'.key])]_vars

\* an insert replaced a different value and returned it while the other key holds
\* a value and another thread's insert on that key is waiting for the shard
C13_Witness ==
    /\ last.op = "insert"
    /\ last.ret \in Vals /\ last.ret # last.arg
    /\ \E k \in Keys \ {last.key} : \E t \in Threads :
          /\ tab[k] \in Vals
          /\ pc[t] = "parked" /\ pending[t] = [op |-> "insert", key |-> k]

\* C14: resolve(id) returns the stored value exactly when get(id) returns one, and
\* otherwise fails with the resource-not-found error carrying exactly id; get
\* returns None exactly when id is absent; neither call changes the table.
C14_ResolveMatchesGet ==
    /\ [](last.op \in {"get", "resolve"} =>
            IF tab[last.key] # Absent
            THEN last.ok /\ last.ret = tab[last.key] /\ last.err = NoErr
                 /\ last.ptr = Registered(last.key)
            ELSE ~last.ok /\ last.ret = Absent /\ last.ptr = NoPtr
                 /\ (last.op = "get" => last.err = NoErr)
                 /\ (last.op = "resolve" =>
                        /\ last.err.kind = "ResourceNotFound"
                        /\ last.err.id = last.key))
    /\ [][(last'.op \in {"get", "resolve"} /\ last' # last) => tab' = tab]_vars

\* resolve failed on a key the table does not hold while it holds the other key
C14_Witness ==
    /\ last.op = "resolve" /\ ~last.ok
    /\ last.err.id = last.key
    /\ \E k \in Keys \ {last.key} : tab[k] \in Vals

\* C15: a Registered pointer serializes as tag r with the string form of its key
\* and an Orphan as tag o with its value; decoding tag r gives no Orphan and
\* decoding tag o gives no Registered pointer, even when the table holds an equal
\* value; clone gives the variant of its argument.
C15_VariantPreserved ==
    /\ last.op = "serialize" =>
          /\ last.ok
          /\ last.src.kind = "Registered" =>
                (/\ last.wire = WireR(last.src.key)
                 /\ last.wire.id = to_string(id(last.src.key).val))
          /\ last.src.kind = "Orphan" => last.wire = WireO(last.src.val)
    /\ (last.op = "deserialize" /\ last.ok) =>
          /\ last.wire.tag = "r" => last.ptr.kind = "Registered"
          /\ last.wire.tag = "o" => last.ptr.kind = "Orphan"
    /\ (last.op = "deserialize" /\ ~last.ok) => last.ptr = NoPtr
    /\ (last.op = "clone" /\ last.ok) => last.ptr.kind = last.src.kind

\* a serialized Orphan was decoded as an Orphan while the table holds an equal
\* value under a key
C15_Witness ==
    /\ last.op = "deserialize" /\ last.ok
    /\ last.wire.tag = "o" /\ last.src.kind = "Orphan"
    /\ last.ptr.kind = "Orphan"
    /\ \E k \in Keys : tab[k] = last.ptr.val

\* s without its i-th element
Without(s, i) == SubSeq(s, 1, i - 1) \o SubSeq(s, i + 1, Len(s))

\* C16: the clone of a Registered pointer is a Registered pointer on the same key,
\* so on the same table entry, and the clone step leaves the table as it was; the
\* clone of an Orphan is one more Orphan with an equal value; dropping a pointer
\* leaves every other pointer, and the value it dereferences to, as they were.
C16_CloneFrame ==
    /\ []((last.op = "clone" /\ last.ok) =>
            /\ last.ptr = last.src
            /\ last.src.kind = "Registered" =>
                  (last.ptr.key = last.src.key /\ tab[last.ptr.key] \in Vals))
    /\ [][(last'.op = "clone" /\ last'.ok /\ last' # last) =>
            /\ tab' = tab
            /\ \E t \in Threads :
                  /\ ptrs'[t] = Append(ptrs[t], last'.ptr)
                  /\ \E i \in 1..Len(ptrs[t]) : ptrs[t][i] = last'.src
                  /\ \A u \in Threads \ {t} : ptrs'[u] = ptrs[u]
                  /\ \A i \in 1..Len(ptrs[t]) : Derefs'[t][i] = Derefs[t][i]]_vars
    /\ [][\A t \in Threads : Len(ptrs'[t]) < Len(ptrs[t]) =>
            /\ tab' = tab
            /\ \E i \in 1..Len(ptrs[t]) :
                  /\ ptrs'[t] = Without(ptrs[t], i)
                  /\ Derefs'[t] = Without(Derefs[t], i)
            /\ \A u \in Threads \ {t} : ptrs'[u] = ptrs[u] /\ Derefs'[u] = Derefs[u]]_vars

\* an Orphan was cloned and one of the two was dropped: the other is alive with
\* the value
C16_Witness ==
    /\ last.op = "clone" /\ last.ok
    /\ last.src.kind = "Orphan"
    /\ \E t \in Threads : ptrs[t] = <<last.ptr>>
    /\ Live = 1

\* C17: for all valid identifiers a and b, a == b exactly when to_string(a) =
\* to_string(b): two different (module, name) pairs never have one string form.
C17_EqIffSameString ==
    ord # "none" =>
        /\ IdInner_eq(ida, idb) <=> (to_string(ida) = to_string(idb))
        /\ IdInner_eq(ida, idb) <=> (ida = idb)
        /\ IdInner_eq(ida, idb) => ord = "Equal"

\* two different identifiers whose parts, written without the separator, are the
\* same bytes
C17_Witness ==
    /\ ord # "none"
    /\ ~IdInner_eq(ida, idb)
    /\ ida.module \o ida.name = idb.module \o idb.name
    /\ to_string(ida) # to_string(idb)

\* some piece of s between separators is longer than the capacity
HasLongPiece(s) == \E i \in 1..Len(split(s, <<>>)) : Len(split(s, <<>>)[i]) > CAP

C19_DecodeThenEncode ==
    /\ []((last.op = "deserialize" /\ last.ok) =>
            Rp_serialize(last.ptr) = [ok |-> TRUE, wire |-> last.wire])
    /\ [][(/\ last.op = "deserialize" /\ last.ok
           /\ last'.op = "serialize" /\ last'.src = last.ptr)
          => (last'.ok /\ last'.wire = last.wire)]_vars

\* bytes of another process that name a key the table holds were decoded to a
\* pointer whose serialized form is those bytes
C19_Witness ==
    /\ last.op = "deserialize" /\ last.ok
    /\ last.src = NoPtr
    /\ last.wire.tag = "r" /\ last.wire.id \in Keys
    /\ last.ptr.kind = "Registered"
    /\ Rp_serialize(last.ptr).wire = last.wire

====
